---- MODULE Spec2Model ----
(***************************************************************************)
(* Canonical-table pipeline of scripts/data_processing.py: the delimited   *)
(* column codec, the participant-count validator, the output directory     *)
(* allocator and build_canonical_tables, with the file system the builders *)
(* share.                                                                  *)
(*                                                                         *)
(* Representation.  A text cell is a sequence of one-character strings; a  *)
(* missing cell of such a column is NA.  Every other cell is the text of   *)
(* its CSV field, with NaN for a missing value; numeric columns are read   *)
(* through ToInt.  A table (DataFrame) is [cols, rows]: the column names   *)
(* in order and the rows in order, each row a function on the columns.     *)
(* A file written by to_csv holds the table that was written.              *)
(***************************************************************************)
EXTENDS Integers, Sequences, FiniteSets, TLC

VARIABLES
    baseExists,  \* processed_base_dir exists on disk
    dirs,        \* the labels l whose directory base_dir/l exists
    files,       \* files[l]: the files of base_dir/l, file name -> table
    pc,          \* pc[b]: where builder b stands in build_canonical_tables
    lbl,         \* lbl[b]: the label argument of b's current call
    mem,         \* mem[b]: the tables b holds in memory, NoTables before the load
    err,         \* err[b]: the exception that ended b's call, NoError else
    nread,       \* nread[b]: raw files b's current call has read
    nwritten,    \* nwritten[b]: to_csv calls b's current call has completed
    report,      \* last result of validate_participant_counts, <<>> if never called
    arg,         \* argument of the codec / validator call under study
    res,         \* results of the calls made on arg, in order
    step         \* number of calls made on arg

vars == <<baseExists, dirs, files, pc, lbl, mem, err, nread, nwritten, report, arg,
          res, step>>

buildVars == <<baseExists, dirs, files, pc, lbl, mem, err, nread, nwritten>>

(***************************************************************************)
(* Bounds of the model.                                                    *)
(***************************************************************************)
MaxLen == 4        \* longest raw cell of the codec specification
MaxPieces == 5     \* most delimiter-separated pieces of a units items column
MaxUnitRows == 2   \* most rows of a units table of the units specification
MaxTraitRows == 3  \* most rows of a traits table of the traits specification
MaxPartRows == 3   \* most rows of a participants table given to the validator
MaxExpected == 2   \* largest expected_per_match given to the validator

(***************************************************************************)
(* Program constants.                                                      *)
(***************************************************************************)
DEFAULT_DELIMITER == ";"
DEFAULT_EXPECTED_PARTICIPANTS == 8
win_threshold == 4
max_parts == 3

NA == <<"<NA>">>   \* a missing text cell (pd.isna holds of it)
NaN == "NaN"       \* a missing scalar cell

Chars == {"a", "b", " ", "\t", ";"}
Whitespace == {" ", "\t"}
Builders == {"b1", "b2"}
Labels == {"canonical_original", "rerun"}
FileNames == <<"participants.csv", "units.csv", "traits.csv">>

Range(s) == {s[i] : i \in DOMAIN s}

RECURSIVE SeqsUpTo(_, _)
SeqsUpTo(S, n) ==
    IF n = 0 THEN {<<>>}
    ELSE LET shorter == SeqsUpTo(S, n - 1)
         IN shorter \cup {Append(s, x) : s \in shorter, x \in S}

(***************************************************************************)
(* Delimited column codec.                                                 *)
(***************************************************************************)
\* str.split(delimiter) of a character sequence: always at least one part
RECURSIVE Split(_, _)
Split(s, d) ==
    IF s = <<>> THEN << <<>> >>
    ELSE LET rest == Split(Tail(s), d)
         IN IF Head(s) = d THEN << <<>> >> \o rest
            ELSE << <<Head(s)>> \o Head(rest) >> \o Tail(rest)

RECURSIVE LStrip(_)
LStrip(t) == IF t # <<>> /\ Head(t) \in Whitespace THEN LStrip(Tail(t)) ELSE t

RECURSIVE RStrip(_)
RStrip(t) ==
    IF t # <<>> /\ t[Len(t)] \in Whitespace
    THEN RStrip(SubSeq(t, 1, Len(t) - 1)) ELSE t

\* str.strip()
Strip(t) == RStrip(LStrip(t))

\* delimiter.join(parts)
RECURSIVE Join(_, _)
Join(parts, d) ==
    IF parts = <<>> THEN <<>>
    ELSE IF Len(parts) = 1 THEN parts[1]
    ELSE parts[1] \o <<d>> \o Join(Tail(parts), d)

\* a faulty variant of SplitCell: tokens are not trimmed
SplitCellNoStrip(value, delimiter, drop_empty) ==
    IF value = NA \/ value = <<>>
    THEN IF drop_empty THEN <<>> ELSE <<value>>
    ELSE LET parts == Split(value, delimiter)
         IN IF drop_empty THEN SelectSeq(parts, LAMBDA p : p # <<>>) ELSE parts

\* _split of parse_delimited_column: one cell to its token list
SplitCell(value, delimiter, drop_empty) ==
    IF value = NA \/ value = <<>>
    THEN IF drop_empty THEN <<>> ELSE <<value>>
    ELSE LET raw == Split(value, delimiter)
             parts == [i \in 1..Len(raw) |-> Strip(raw[i])]
         IN IF drop_empty THEN SelectSeq(parts, LAMBDA p : p # <<>>) ELSE parts

\* parse_delimited_column: series.apply(_split)
parse_delimited_column(series, delimiter, drop_empty) ==
    [i \in 1..Len(series) |-> SplitCell(series[i], delimiter, drop_empty)]

Column(df, column) == [i \in 1..Len(df.rows) |-> df.rows[i][column]]

\* out[column] = values: a new column is appended, an existing one overwritten
SetColumn(df, column, values) ==
    [cols |-> IF column \in Range(df.cols) THEN df.cols ELSE Append(df.cols, column),
     rows |-> [i \in 1..Len(df.rows) |->
                 [c \in DOMAIN df.rows[i] \cup {column} |->
                     IF c = column THEN values[i] ELSE df.rows[i][c]]]]

normalize_delimited_column(df, column, delimiter) ==
    IF column \notin Range(df.cols) THEN df
    ELSE LET lists == parse_delimited_column(Column(df, column), delimiter, TRUE)
         IN SetColumn(df, column,
                      [i \in 1..Len(lists) |-> Join(lists[i], delimiter)])

\* f"{prefix}_{i}", tabulated for the prefix the pipeline uses ("item")
SlotName(prefix, i) ==
    IF prefix = "item"
    THEN <<"item_0", "item_1", "item_2", "item_3", "item_4", "item_5",
           "item_6", "item_7", "item_8", "item_9">>[i + 1]
    ELSE "slot"

Max(S) == CHOOSE x \in S : \A y \in S : y <= x

RECURSIVE AddSlots(_, _, _, _, _)
AddSlots(df, lists, prefix, i, width) ==
    IF i >= width THEN df
    ELSE AddSlots(
           SetColumn(df, SlotName(prefix, i),
               [r \in 1..Len(lists) |->
                   IF i < Len(lists[r]) THEN lists[r][i + 1] ELSE NA]),
           lists, prefix, i + 1, width)

\* a faulty variant of split_delimited_to_columns: max_parts is ignored and the
\* width is always inferred from the longest row
split_inferred_width(df, column, prefix, delimiter, maxParts) ==
    IF column \notin Range(df.cols) THEN df
    ELSE LET list_series == parse_delimited_column(Column(df, column), delimiter, TRUE)
             inferred_max == IF list_series # <<>>
                             THEN Max({Len(list_series[r]) : r \in 1..Len(list_series)})
                             ELSE 0
         IN AddSlots(df, list_series, prefix, 0, inferred_max)

\* maxParts is <<>> for None and <<n>> for n
split_delimited_to_columns(df, column, prefix, delimiter, maxParts) ==
    IF column \notin Range(df.cols) THEN df
    ELSE LET list_series == parse_delimited_column(Column(df, column), delimiter, TRUE)
             inferred_max == IF list_series # <<>>
                             THEN Max({Len(list_series[r]) : r \in 1..Len(list_series)})
                             ELSE 0
             max_len == IF maxParts # <<>> THEN maxParts[1] ELSE inferred_max
         IN AddSlots(df, list_series, prefix, 0, max_len)

\* df.drop(columns=[column])
DropColumn(df, column) ==
    [cols |-> SelectSeq(df.cols, LAMBDA c : c # column),
     rows |-> [i \in 1..Len(df.rows) |->
                 [c \in DOMAIN df.rows[i] \ {column} |-> df.rows[i][c]]]]

\* df.rename(columns={old: new})
RenameColumn(df, old, new) ==
    IF old \notin Range(df.cols) THEN df
    ELSE [cols |-> [k \in 1..Len(df.cols) |->
                      IF df.cols[k] = old THEN new ELSE df.cols[k]],
          rows |-> [i \in 1..Len(df.rows) |->
                      [c \in (DOMAIN df.rows[i] \ {old}) \cup {new} |->
                          IF c = new THEN df.rows[i][old] ELSE df.rows[i][c]]]]

(***************************************************************************)
(* Validation helpers.                                                     *)
(***************************************************************************)
NoError == [kind |-> "none", label |-> "", missing |-> <<>>]

\* a faulty variant of ensure_columns: only the first missing column is named
ensure_columns_first_only(df, required, label) ==
    LET missing == SelectSeq(required, LAMBDA col : col \notin Range(df.cols))
    IN IF missing # <<>>
       THEN [kind |-> "ValueError", label |-> label, missing |-> <<Head(missing)>>]
       ELSE NoError

\* _ensure_columns: the exception raised, NoError when none is
ensure_columns(df, required, label) ==
    LET missing == SelectSeq(required, LAMBDA col : col \notin Range(df.cols))
    IN IF missing # <<>>
       THEN [kind |-> "ValueError", label |-> label, missing |-> missing]
       ELSE NoError

\* groupby("match_id")["puuid"].nunique(): a missing match_id forms no group
\* and a missing puuid is not counted
GroupNunique(participants) ==
    LET keys == {participants.rows[i]["match_id"] : i \in 1..Len(participants.rows)}
                    \ {NaN}
    IN [m \in keys |->
          Cardinality({participants.rows[i]["puuid"] :
                          i \in {j \in 1..Len(participants.rows) :
                                    participants.rows[j]["match_id"] = m}} \ {NaN})]

\* a faulty variant of validate_participant_counts: only matches with too few
\* participants are mismatches
validate_counts_too_few(participants, expected_per_match, strict) ==
    LET counts == GroupNunique(participants)
        bad == {m \in DOMAIN counts : counts[m] < expected_per_match}
        details == [m \in bad |-> counts[m]]
    IN IF bad = {} THEN [raised |-> FALSE, value |-> details]
       ELSE [raised |-> strict, value |-> details]

\* validate_participant_counts: the mapping returned, or carried by the
\* ValueError when raised
validate_participant_counts(participants, expected_per_match, strict) ==
    LET counts == GroupNunique(participants)
        bad == {m \in DOMAIN counts : counts[m] # expected_per_match}
        details == [m \in bad |-> counts[m]]
    IN IF bad = {} THEN [raised |-> FALSE, value |-> details]
       ELSE [raised |-> strict, value |-> details]

(***************************************************************************)
(* Core transformations.                                                   *)
(***************************************************************************)
\* the integer a numeric CSV field is read as
ToInt ==
    ("-1" :> -1) @@ ("0" :> 0) @@ ("1" :> 1) @@ ("2" :> 2) @@ ("3" :> 3) @@
    ("4" :> 4) @@ ("5" :> 5) @@ ("6" :> 6) @@ ("7" :> 7) @@ ("8" :> 8)

\* a column whose comparison with a number raises TypeError: read_csv keeps
\* a column holding any non-numeric text as strings
NonNumeric(df, column) ==
    \E i \in 1..Len(df.rows) :
        df.rows[i][column] # NaN /\ df.rows[i][column] \notin DOMAIN ToInt

TypeError == [kind |-> "TypeError", label |-> "", missing |-> <<>>]

\* add_participant_flags: [err, df]
add_participant_flags(participants) ==
    LET e == ensure_columns(participants, <<"placement">>, "participants")
    IN IF e # NoError THEN [err |-> e, df |-> participants]
       ELSE IF NonNumeric(participants, "placement")
       THEN [err |-> TypeError, df |-> participants]
       ELSE [err |-> NoError,
             df |-> SetColumn(participants, "is_win",
                      [i \in 1..Len(participants.rows) |->
                         /\ participants.rows[i]["placement"] # NaN
                         /\ ToInt[participants.rows[i]["placement"]] <= win_threshold])]

\* lines 200-216 of build_canonical_tables: the units pipeline
TransformUnits(units, delimiter) ==
    LET normalized == normalize_delimited_column(units, "items", delimiter)
        split == split_delimited_to_columns(normalized, "items", "item",
                                            delimiter, <<max_parts>>)
        dropped == DropColumn(split, "items")
    IN RenameColumn(RenameColumn(dropped, "unit_id", "unit_name"),
                    "star_level", "unit_tier")

\* a faulty variant of FilterTraits: tier_current >= 0 is kept
FilterTraitsNonNegative(traits) ==
    IF NonNumeric(traits, "tier_current")
    THEN [err |-> TypeError, df |-> traits]
    ELSE [err |-> NoError,
          df |-> [cols |-> traits.cols,
                  rows |-> SelectSeq(traits.rows, LAMBDA r :
                              /\ r["tier_current"] # NaN
                              /\ ToInt[r["tier_current"]] >= 0)]]

\* traits.loc[traits["tier_current"] > 0].copy(): [err, df]
FilterTraits(traits) ==
    IF NonNumeric(traits, "tier_current")
    THEN [err |-> TypeError, df |-> traits]
    ELSE [err |-> NoError,
          df |-> [cols |-> traits.cols,
                  rows |-> SelectSeq(traits.rows, LAMBDA r :
                              /\ r["tier_current"] # NaN
                              /\ ToInt[r["tier_current"]] > 0)]]

(***************************************************************************)
(* build_canonical_tables, in the steps at which it touches the file       *)
(* system.  Several builders may run at once against one base_dir.         *)
(***************************************************************************)
ParticipantsRequired == <<"match_id", "puuid", "placement", "level">>
UnitsRequired == <<"match_id", "puuid", "unit_id", "star_level", "items">>
TraitsRequired == <<"match_id", "puuid", "trait_id", "tier_current">>

EmptyTable == [cols |-> <<>>, rows |-> <<>>]
NoTables == [participants |-> EmptyTable, units |-> EmptyTable, traits |-> EmptyTable]

\* raised by line 149 (where = "exists") or by mkdir in line 153 ("mkdir")
FileExistsError(where) == [kind |-> "FileExistsError", label |-> where, missing |-> <<>>]
LoadError == [kind |-> "IOError", label |-> "read_csv", missing |-> <<>>]
WriteError == [kind |-> "IOError", label |-> "to_csv", missing |-> <<>>]

\* lines 186-194: the three _ensure_columns calls in order; the first that
\* raises ends the build
EnsureAll(raw) ==
    LET p == ensure_columns(raw.participants, ParticipantsRequired, "participants")
        u == ensure_columns(raw.units, UnitsRequired, "units")
        t == ensure_columns(raw.traits, TraitsRequired, "traits")
    IN IF p # NoError THEN p ELSE IF u # NoError THEN u ELSE t

\* lines 197-219: [err, tables], the tables as they stand when err is raised
Transform(raw, delimiter) ==
    LET p == add_participant_flags(raw.participants)
        u == TransformUnits(raw.units, delimiter)
        t == FilterTraits(raw.traits)
    IN IF p.err # NoError THEN [err |-> p.err, tables |-> raw]
       ELSE IF t.err # NoError
       THEN [err |-> t.err,
             tables |-> [participants |-> p.df, units |-> u, traits |-> raw.traits]]
       ELSE [err |-> NoError,
             tables |-> [participants |-> p.df, units |-> u, traits |-> t.df]]

\* a faulty variant of Prepare: the participants table goes through the strict
\* participant-count validator before the transforms
PrepareValidated(raw, delimiter) ==
    LET e == EnsureAll(raw)
        v == validate_participant_counts(raw.participants,
                                         DEFAULT_EXPECTED_PARTICIPANTS, TRUE)
    IN IF e # NoError THEN [err |-> e, tables |-> raw]
       ELSE IF v.raised
       THEN [err |-> [kind |-> "ValueError", label |-> "participant counts",
                      missing |-> <<>>],
             tables |-> raw]
       ELSE Transform(raw, delimiter)

\* lines 186-219: everything between the load and the writes
Prepare(raw, delimiter) ==
    LET e == EnsureAll(raw)
    IN IF e # NoError THEN [err |-> e, tables |-> raw]
       ELSE Transform(raw, delimiter)

\* a faulty variant of resolve_raises: the existence test is left out
resolve_never_raises(exists) == FALSE

\* line 148: if out_dir.exists(): raise FileExistsError
resolve_raises(exists) == exists

\* a faulty variant of mkdir_raises: mkdir(parents=True, exist_ok=True)
mkdir_exist_ok(exists) == FALSE

\* line 153: mkdir(parents=True, exist_ok=False) raises FileExistsError
\* when the directory exists
mkdir_raises(exists) == exists

\* a faulty variant of DirsAfterMkdir: the directory is not created
DirsWithoutMkdir(d, l) == d

\* line 153: the directories once out_dir is created
DirsAfterMkdir(d, l) == d \cup {l}

\* a faulty variant of WriteOrder: units.csv is written first
WriteOrderUnitsFirst == <<"units", "participants", "traits">>

\* lines 222-224: the tables in the order they are written
WriteOrder == <<"participants", "units", "traits">>

FileOf(table) ==
    CASE table = "participants" -> "participants.csv"
      [] table = "units" -> "units.csv"
      [] table = "traits" -> "traits.csv"

(***************************************************************************)
(* Raw inputs of the builds: the tables read_csv returns.                  *)
(***************************************************************************)
Restrict(row, cols) == [c \in Range(cols) |-> row[c]]

\* the table of the rows under the required columns less the missing ones
RawTable(required, missing, rows) ==
    LET cols == SelectSeq(required, LAMBDA c : c \notin missing)
    IN [cols |-> cols, rows |-> [i \in 1..Len(rows) |-> Restrict(rows[i], cols)]]

Puuids == <<"p1", "p2", "p3", "p4", "p5", "p6", "p7", "p8">>
Placements == <<"1", "2", "3", "4", "5", "6", "7", "8">>

\* one match of eight participants placed 1..8
FullMatch ==
    [i \in 1..8 |-> [match_id |-> "m1", puuid |-> Puuids[i],
                     placement |-> Placements[i], level |-> "7"]]

\* a match of two participants and a match of one, one placement missing
ShortMatches ==
    << [match_id |-> "m1", puuid |-> "p1", placement |-> "1", level |-> "8"],
       [match_id |-> "m1", puuid |-> "p2", placement |-> NaN, level |-> "6"],
       [match_id |-> "m2", puuid |-> "p1", placement |-> "5", level |-> "7"] >>

TextPlacement ==
    << [match_id |-> "m1", puuid |-> "p1", placement |-> "first", level |-> "8"] >>

RawParticipants ==
    {RawTable(ParticipantsRequired, {}, rows) :
        rows \in {FullMatch, ShortMatches, TextPlacement}}
    \cup {RawTable(ParticipantsRequired, m, ShortMatches) :
            m \in {{"level"}, {"placement", "level"}}}

UnitRows ==
    { << [match_id |-> "m1", puuid |-> "p1", unit_id |-> "u1", star_level |-> "2",
          items |-> <<"a", ";", "b">>] >>,
      << [match_id |-> "m1", puuid |-> "p1", unit_id |-> "u1", star_level |-> "1",
          items |-> <<"a", ";", ";", " ", "b", ";", "a", ";", "b">>],
         [match_id |-> "m1", puuid |-> "p2", unit_id |-> "u2", star_level |-> "3",
          items |-> NA] >> }

RawUnits ==
    {RawTable(UnitsRequired, {}, rows) : rows \in UnitRows}
    \cup {RawTable(UnitsRequired, m, CHOOSE rows \in UnitRows : Len(rows) = 1) :
            m \in {{"star_level"}, {"unit_id", "items"}}}

TraitTiers == {<<"0", "1", "2">>, <<"2", "high">>}

TraitRowsOf(tiers) ==
    [i \in 1..Len(tiers) |->
        [match_id |-> "m1", puuid |-> "p1", trait_id |-> "t1",
         tier_current |-> tiers[i]]]

RawTraits ==
    {RawTable(TraitsRequired, {}, TraitRowsOf(t)) : t \in TraitTiers}
    \cup {RawTable(TraitsRequired, {"trait_id"}, TraitRowsOf(<<"0", "1", "2">>))}

RawInputs == [participants : RawParticipants, units : RawUnits, traits : RawTraits]

(***************************************************************************)
(* The builders.                                                           *)
(***************************************************************************)
BuildIdle ==
    /\ baseExists \in BOOLEAN
    /\ dirs = {}
    /\ files = [l \in Labels |-> <<>>]
    /\ pc = [b \in Builders |-> "idle"]
    /\ lbl = [b \in Builders |-> "canonical_original"]
    /\ mem = [b \in Builders |-> NoTables]
    /\ err = [b \in Builders |-> NoError]
    /\ nread = [b \in Builders |-> 0]
    /\ nwritten = [b \in Builders |-> 0]

Init ==
    /\ BuildIdle
    /\ report = <<>>
    /\ arg = <<>>
    /\ res = <<>>
    /\ step = 0

pureVars == <<report, arg, res, step>>

\* lines 177-178: entry, processed_base_dir.mkdir(parents=True, exist_ok=True)
Call(b, label) ==
    /\ pc[b] = "idle"
    /\ pc' = [pc EXCEPT ![b] = "resolve"]
    /\ lbl' = [lbl EXCEPT ![b] = label]
    /\ baseExists' = TRUE
    /\ UNCHANGED <<dirs, files, mem, err, nread, nwritten, pureVars>>

Fail(b, e) ==
    /\ pc' = [pc EXCEPT ![b] = "failed"]
    /\ err' = [err EXCEPT ![b] = e]

\* lines 146-152 of resolve_processed_output_dir: the existence test
Resolve(b) ==
    /\ pc[b] = "resolve"
    /\ IF resolve_raises(lbl[b] \in dirs)
       THEN Fail(b, FileExistsError("exists"))
       ELSE pc' = [pc EXCEPT ![b] = "mkdir"] /\ UNCHANGED err
    /\ UNCHANGED <<baseExists, dirs, files, lbl, mem, nread, nwritten, pureVars>>

\* line 153 of resolve_processed_output_dir: the creation
Mkdir(b) ==
    /\ pc[b] = "mkdir"
    /\ IF mkdir_raises(lbl[b] \in dirs)
       THEN Fail(b, FileExistsError("mkdir")) /\ UNCHANGED dirs
       ELSE /\ dirs' = DirsAfterMkdir(dirs, lbl[b])
            /\ pc' = [pc EXCEPT ![b] = "load"]
            /\ UNCHANGED err
    /\ UNCHANGED <<baseExists, files, lbl, mem, nread, nwritten, pureVars>>

\* lines 182-219: the three read_csv calls, column validation and transforms
Load(b) ==
    /\ pc[b] = "load"
    /\ \/ \E raw \in RawInputs :
            LET r == Prepare(raw, DEFAULT_DELIMITER)
            IN /\ nread' = [nread EXCEPT ![b] = 3]
               /\ mem' = [mem EXCEPT ![b] = r.tables]
               /\ IF r.err # NoError
                  THEN Fail(b, r.err)
                  ELSE pc' = [pc EXCEPT ![b] = "write"] /\ UNCHANGED err
       \/ \E k \in 0..2 :   \* the read of raw file k + 1 raises
            /\ nread' = [nread EXCEPT ![b] = k]
            /\ Fail(b, LoadError)
            /\ UNCHANGED mem
    /\ UNCHANGED <<baseExists, dirs, files, lbl, nwritten, pureVars>>

\* lines 222-226: one to_csv call; the third is followed by the return
Write(b) ==
    /\ pc[b] = "write"
    /\ LET table == WriteOrder[nwritten[b] + 1]
           name == FileOf(table)
           df == mem[b][table]
       IN \/ /\ files' = [files EXCEPT ![lbl[b]] = (name :> df) @@ @]
             /\ nwritten' = [nwritten EXCEPT ![b] = @ + 1]
             /\ pc' = [pc EXCEPT ![b] = IF nwritten[b] = 2 THEN "done" ELSE "write"]
             /\ UNCHANGED err
          \/ \* to_csv raises before the file is created
             /\ Fail(b, WriteError)
             /\ UNCHANGED <<files, nwritten>>
          \/ \* to_csv raises with the file created and k of its rows written
             \E k \in 0..Len(df.rows) :
                /\ files' = [files EXCEPT ![lbl[b]] =
                       (name :> [cols |-> df.cols, rows |-> SubSeq(df.rows, 1, k)]) @@ @]
                /\ Fail(b, WriteError)
                /\ UNCHANGED nwritten
    /\ UNCHANGED <<baseExists, dirs, lbl, mem, nread, pureVars>>

\* the call has ended, by return or by exception: the builder can be called again
Return(b) ==
    /\ pc[b] \in {"done", "failed"}
    /\ pc' = [pc EXCEPT ![b] = "idle"]
    /\ mem' = [mem EXCEPT ![b] = NoTables]
    /\ err' = [err EXCEPT ![b] = NoError]
    /\ nread' = [nread EXCEPT ![b] = 0]
    /\ nwritten' = [nwritten EXCEPT ![b] = 0]
    /\ UNCHANGED <<baseExists, dirs, files, lbl, pureVars>>

\* the operator deletes an output directory between runs ("Delete it or
\* choose a different label")
RemoveDir(l) ==
    /\ l \in dirs
    /\ \A b \in Builders : pc[b] = "idle"
    /\ dirs' = dirs \ {l}
    /\ files' = [files EXCEPT ![l] = <<>>]
    /\ UNCHANGED <<baseExists, pc, lbl, mem, err, nread, nwritten, pureVars>>

Next ==
    \/ \E b \in Builders, l \in Labels : Call(b, l)
    \/ \E b \in Builders : Resolve(b)
    \/ \E b \in Builders : Mkdir(b)
    \/ \E b \in Builders : Load(b)
    \/ \E b \in Builders : Write(b)
    \/ \E b \in Builders : Return(b)
    \/ \E l \in Labels : RemoveDir(l)

Spec == Init /\ [][Next]_vars

(***************************************************************************)
(* Claims about the builds.                                                *)
(***************************************************************************)
Moves(b) == pc'[b] # pc[b]

AllFiles == {"participants.csv", "units.csv", "traits.csv"}

\* the tables of FileNames, in its order
TableNames == <<"participants", "units", "traits">>

\* the call of b was given the directory by resolve_processed_output_dir
Allocated(b) ==
    \/ pc[b] \in {"load", "write", "done"}
    \/ pc[b] = "failed" /\ err[b].kind # "FileExistsError"

\* C1: a call whose label directory exists changes nothing under base_dir
\* and reads no raw file, and its existence test ends it with
\* FileExistsError.
C1_ExistingDirFailsFast ==
    [][\A b \in Builders :
          (Moves(b) /\ pc[b] \in {"idle", "resolve"} /\ lbl'[b] \in dirs) =>
              /\ dirs' = dirs
              /\ files' = files
              /\ nread'[b] = 0
              /\ pc[b] = "resolve" =>
                    (pc'[b] = "failed" /\ err'[b] = FileExistsError("exists"))]_vars

\* a build has failed on the existence test of a directory that holds the
\* three files of an earlier build
C1_Witness ==
    \E b \in Builders :
        /\ pc[b] = "failed"
        /\ err[b] = FileExistsError("exists")
        /\ nread[b] = 0
        /\ DOMAIN files[lbl[b]] = AllFiles
        /\ \A o \in Builders \ {b} : pc[o] = "idle"

MissingOf(df, required) == SelectSeq(required, LAMBDA c : c \notin Range(df.cols))

\* C2 as stated: a missing-column failure names the missing columns of all
\* three tables.
C2_NamesAllTables ==
    \A b \in Builders :
        (pc[b] = "failed" /\ err[b].kind = "ValueError") =>
            err[b].missing =
                MissingOf(mem[b].participants, ParticipantsRequired)
                \o MissingOf(mem[b].units, UnitsRequired)
                \o MissingOf(mem[b].traits, TraitsRequired)

\* C2 as amended: a missing-column failure names the first deficient table in
\* the order participants, units, traits and every missing column of that
\* table, and of that table only.
C2_NamesFirstDeficientTable ==
    \A b \in Builders :
        (pc[b] = "failed" /\ err[b].kind = "ValueError") =>
            LET p == MissingOf(mem[b].participants, ParticipantsRequired)
                u == MissingOf(mem[b].units, UnitsRequired)
                t == MissingOf(mem[b].traits, TraitsRequired)
            IN /\ p # <<>> => (err[b].label = "participants" /\ err[b].missing = p)
               /\ (p = <<>> /\ u # <<>>) => (err[b].label = "units" /\ err[b].missing = u)
               /\ (p = <<>> /\ u = <<>>) => (err[b].label = "traits" /\ err[b].missing = t)

\* participants lacks level and traits lacks trait_id: the failure names level
C2_Witness ==
    \E b \in Builders :
        /\ pc[b] = "failed"
        /\ err[b] = [kind |-> "ValueError", label |-> "participants",
                     missing |-> <<"level">>]
        /\ MissingOf(mem[b].traits, TraitsRequired) = <<"trait_id">>

\* C3 as stated: when a call has ended, its label directory holds all three
\* files or none.
C3_AllOrNothing ==
    \A b \in Builders :
        pc[b] \in {"done", "failed"} =>
            (DOMAIN files[lbl[b]] = AllFiles \/ DOMAIN files[lbl[b]] = {})

\* C3 as amended: a call that returns leaves the three files it wrote; a call
\* that fails at the load, the column validation or a transform leaves its
\* directory empty; a call that fails in a write leaves the files written
\* before it, complete, and at most the failing file besides.
C3_PrefixOfWrites ==
    \A b \in Builders :
        LET here == DOMAIN files[lbl[b]]
            written == {FileNames[i] : i \in 1..nwritten[b]}
        IN /\ pc[b] = "done" => (here = AllFiles /\ nwritten[b] = 3)
           /\ (pc[b] = "failed" /\ err[b].kind \in {"ValueError", "TypeError"}) =>
                 here = {}
           /\ (pc[b] = "failed" /\ err[b] = LoadError) => here = {}
           /\ (pc[b] = "failed" /\ err[b] = WriteError) =>
                 /\ nwritten[b] < 3
                 /\ here \in {written, written \cup {FileNames[nwritten[b] + 1]}}
           /\ Allocated(b) =>
                 \A i \in 1..nwritten[b] :
                     /\ FileNames[i] \in here
                     /\ files[lbl[b]][FileNames[i]] = mem[b][TableNames[i]]

\* the second write has failed: participants.csv stands alone
C3_Witness ==
    \E b \in Builders :
        /\ pc[b] = "failed"
        /\ err[b] = WriteError
        /\ nwritten[b] = 1
        /\ DOMAIN files[lbl[b]] = {"participants.csv"}

C9_EmptyDirBlocksLabel ==
    /\ [](\A b \in Builders :
            (pc[b] = "failed" /\ (err[b] = LoadError \/ err[b].kind = "ValueError")) =>
                (lbl[b] \in dirs /\ DOMAIN files[lbl[b]] = {}))
    /\ [][\A b \in Builders :
            (Moves(b) /\ pc[b] = "resolve" /\ lbl[b] \in dirs
                /\ DOMAIN files[lbl[b]] = {}) =>
                /\ pc'[b] = "failed"
                /\ err'[b].kind = "FileExistsError"
                /\ lbl[b] \in dirs'
                /\ files' = files]_vars

\* one builder failed at column validation; the other then failed on the
\* existence test of the directory left behind
C9_Witness ==
    /\ pc["b1"] = "failed" /\ err["b1"].kind = "ValueError"
    /\ pc["b2"] = "failed" /\ err["b2"] = FileExistsError("exists")
    /\ nread["b2"] = 0
    /\ lbl["b1"] = lbl["b2"]
    /\ lbl["b1"] \in dirs
    /\ DOMAIN files[lbl["b1"]] = {}

\* C10: of the builders running with one label at most one is given the
\* directory, and a creation that finds the directory fails with
\* FileExistsError.
C10_CreatedOnce ==
    /\ [](\A b1, b2 \in Builders :
            (b1 # b2 /\ lbl[b1] = lbl[b2]) => ~(Allocated(b1) /\ Allocated(b2)))
    /\ [][\A b \in Builders :
            (Moves(b) /\ pc[b] = "mkdir" /\ lbl[b] \in dirs) =>
                (pc'[b] = "failed" /\ err'[b] = FileExistsError("mkdir")
                    /\ dirs' = dirs /\ files' = files)]_vars

\* both builders passed the existence test; one created the directory and
\* the creation of the other failed
C10_Witness ==
    \E b1, b2 \in Builders :
        /\ b1 # b2
        /\ lbl[b1] = lbl[b2]
        /\ Allocated(b1)
        /\ pc[b2] = "failed"
        /\ err[b2] = FileExistsError("mkdir")

(***************************************************************************)
(* SpecCodec: normalize_delimited_column applied once and then again to    *)
(* its own result, on a one-row table and every raw cell and delimiter.    *)
(***************************************************************************)
RawCells == SeqsUpTo(Chars, MaxLen) \cup {NA}

CellTable(cell) == [cols |-> <<"items">>, rows |-> << [c \in {"items"} |-> cell] >>]

InitCodec ==
    /\ BuildIdle /\ baseExists = FALSE
    /\ report = <<>>
    /\ arg \in [cell : RawCells, delimiter : Chars]
    /\ res = <<>>
    /\ step = 0

Normalize ==
    /\ step < 2
    /\ res' = Append(res, normalize_delimited_column(
                 IF step = 0 THEN CellTable(arg.cell) ELSE res[step],
                 "items", arg.delimiter))
    /\ step' = step + 1
    /\ UNCHANGED <<buildVars, report, arg>>

NextCodec == Normalize

SpecCodec == InitCodec /\ [][NextCodec]_vars

NormCell(i) == res[i].rows[1]["items"]

\* C6: normalizing a normalized cell changes nothing, and a normalized cell
\* has no leading, trailing or doubled delimiter and no token with leading
\* or trailing whitespace.
C6_NormalizeIdempotent ==
    /\ step = 2 => res[2] = res[1]
    /\ step >= 1 =>
         LET n == NormCell(1)
             d == arg.delimiter
             toks == Split(n, d)
         IN /\ n # <<>> => (Head(n) # d /\ n[Len(n)] # d)
            /\ \A i \in 1..(Len(n) - 1) : ~(n[i] = d /\ n[i + 1] = d)
            /\ n # <<>> => \A k \in 1..Len(toks) :
                   /\ toks[k] # <<>>
                   /\ Head(toks[k]) \notin Whitespace
                   /\ toks[k][Len(toks[k])] \notin Whitespace

\* a cell with padded tokens, empty tokens and a whitespace delimiter has
\* been normalized twice
C6_Witness ==
    /\ step = 2
    /\ arg.cell = <<" ", "a", ";", ";">>
    /\ arg.delimiter = ";"
    /\ NormCell(2) = <<"a">>

(***************************************************************************)
(* SpecValidator: validate_participant_counts on every participants table  *)
(* of at most MaxPartRows rows, with missing match_id and puuid values.    *)
(***************************************************************************)
ParticipantRows ==
    [match_id : {"m1", "m2", NaN}, puuid : {"p1", "p2", NaN}]

InitValidator ==
    /\ BuildIdle /\ baseExists = FALSE
    /\ report = <<>>
    /\ arg \in [participants : [cols : {<<"match_id", "puuid">>},
                                rows : SeqsUpTo(ParticipantRows, MaxPartRows)],
                expected_per_match : 0..MaxExpected,
                strict : BOOLEAN]
    /\ res = <<>>
    /\ step = 0

Validate ==
    /\ step = 0
    /\ LET r == validate_participant_counts(arg.participants,
                                            arg.expected_per_match, arg.strict)
       IN /\ res' = <<r>>
          /\ report' = <<r>>
    /\ step' = 1
    /\ UNCHANGED <<buildVars, arg>>

NextValidator == Validate

SpecValidator == InitValidator /\ [][NextValidator]_vars

\* the distinct puuid values of match m, counted from the rows
DistinctPuuids(rows, m) ==
    {p \in {"p1", "p2"} : \E i \in 1..Len(rows) :
        rows[i]["match_id"] = m /\ rows[i]["puuid"] = p}

Mismatches(rows, expected) ==
    {m \in {"m1", "m2"} :
        /\ \E i \in 1..Len(rows) : rows[i]["match_id"] = m
        /\ Cardinality(DistinctPuuids(rows, m)) # expected}

\* C5: the mapping holds exactly the match_ids whose distinct puuid count
\* differs from expected_per_match, each with its count; it is returned when
\* strict is false or nothing mismatches, and carried by the failure when
\* strict is true and something mismatches.
C5_ValidatorCorrect ==
    step = 1 =>
        LET rows == arg.participants.rows
            bad == Mismatches(rows, arg.expected_per_match)
            r == res[1]
        IN /\ DOMAIN r.value = bad
           /\ \A m \in bad : r.value[m] = Cardinality(DistinctPuuids(rows, m))
           /\ r.raised = (arg.strict /\ bad # {})
           /\ (DOMAIN r.value = {}) =
                 (\A i \in 1..Len(rows) : rows[i]["match_id"] # NaN =>
                     Cardinality(DistinctPuuids(rows, rows[i]["match_id"]))
                         = arg.expected_per_match)

\* a strict call has failed on a table where one match has too many
\* participants and the other the expected number
C5_Witness ==
    /\ step = 1
    /\ arg.strict
    /\ arg.expected_per_match = 1
    /\ res[1].raised
    /\ DOMAIN res[1].value = {"m1"}
    /\ res[1].value["m1"] = 2
    /\ \E i \in 1..Len(arg.participants.rows) :
          arg.participants.rows[i]["match_id"] = "m2"

(***************************************************************************)
(* SpecUnits: the units pipeline of the build on every units table of at   *)
(* most MaxUnitRows rows whose items cells are missing or join pieces with *)
(* the delimiter, at most MaxPieces pieces in the whole column.  A piece   *)
(* is given with the token it stands for (<<>>: none).                     *)
(***************************************************************************)
PieceKinds ==
    { [raw |-> <<"a">>, tok |-> <<"a">>],
      [raw |-> <<" ", "b", " ">>, tok |-> <<"b">>],
      [raw |-> <<>>, tok |-> <<>>] }

ItemsCells(budget) ==
    [missing : {FALSE}, pieces : SeqsUpTo(PieceKinds, budget) \ {<<>>}]
        \cup {[missing |-> TRUE, pieces |-> <<>>]}

\* the items columns of at most n rows holding at most budget pieces in all
RECURSIVE ItemsColumns(_, _)
ItemsColumns(n, budget) ==
    IF n = 0 THEN {<<>>}
    ELSE {<<>>} \cup
         UNION { { <<c>> \o rest :
                     rest \in ItemsColumns(n - 1, budget - Len(c.pieces)) } :
                 c \in ItemsCells(budget) }

RawCell(cell, delimiter) ==
    IF cell.missing THEN NA
    ELSE Join([k \in 1..Len(cell.pieces) |-> cell.pieces[k].raw], delimiter)

\* the non-empty trimmed tokens of the cell, in order
Tokens(cell) ==
    LET toks == [k \in 1..Len(cell.pieces) |-> cell.pieces[k].tok]
    IN SelectSeq(toks, LAMBDA t : t # <<>>)

\* stale: the raw table already has a column named item_1
UnitsTable(cells, delimiter, stale) ==
    [cols |-> IF stale THEN Append(UnitsRequired, "item_1") ELSE UnitsRequired,
     rows |-> [i \in 1..Len(cells) |->
                 LET row == [match_id |-> "m1", puuid |-> "p1", unit_id |-> "u1",
                             star_level |-> "2",
                             items |-> RawCell(cells[i], delimiter)]
                 IN IF stale THEN row @@ [item_1 |-> <<"b", "b">>] ELSE row]]

InitUnits ==
    /\ BuildIdle /\ baseExists = FALSE
    /\ report = <<>>
    /\ arg \in [cells : ItemsColumns(MaxUnitRows, MaxPieces),
                delimiter : {DEFAULT_DELIMITER},
                stale : BOOLEAN]
    /\ res = <<>>
    /\ step = 0

ApplyTransformUnits ==
    /\ step = 0
    /\ res' = <<TransformUnits(UnitsTable(arg.cells, arg.delimiter, arg.stale),
                               arg.delimiter)>>
    /\ step' = 1
    /\ UNCHANGED <<buildVars, report, arg>>

NextUnits == ApplyTransformUnits

SpecUnits == InitUnits /\ [][NextUnits]_vars

\* C7: the units table has the three slot columns item_0, item_1, item_2,
\* each once, and no items column; slot i of a row is the i-th non-empty
\* trimmed token of the row's items cell, null when there is none.
C7_FixedSlots ==
    step = 1 =>
        LET out == res[1]
        IN /\ {c \in Range(out.cols) : c \notin {"match_id", "puuid", "unit_name",
                                                 "unit_tier"}}
                 = {"item_0", "item_1", "item_2"}
           /\ Len(out.cols) = Cardinality(Range(out.cols))
           /\ Len(out.rows) = Len(arg.cells)
           /\ \A r \in 1..Len(out.rows) :
                 /\ DOMAIN out.rows[r] = Range(out.cols)
                 /\ \A i \in 0..2 :
                       out.rows[r][SlotName("item", i)] =
                           IF i < Len(Tokens(arg.cells[r]))
                           THEN Tokens(arg.cells[r])[i + 1] ELSE NA

\* a row of four tokens has been projected beside a row with a missing
\* cell: the fourth token is gone
C7_Witness ==
    /\ step = 1
    /\ Len(arg.cells) = 2
    /\ Len(Tokens(arg.cells[1])) = 4
    /\ arg.cells[2].missing
    /\ res[1].rows[2]["item_0"] = NA
    /\ res[1].rows[1]["item_2"] = <<"b">>
    /\ res[1].rows[1]["item_0"] = <<"a">>

(***************************************************************************)
(* SpecTraits: the traits filter of the build on every traits table of at  *)
(* most MaxTraitRows rows.                                                 *)
(***************************************************************************)
TraitRows ==
    [match_id : {"m1"}, puuid : {"p1"}, trait_id : {"t1", "t2"},
     tier_current : {"-1", "0", "1", "2", NaN, "high"}]

InitTraits ==
    /\ BuildIdle /\ baseExists = FALSE
    /\ report = <<>>
    /\ arg \in [cols : {TraitsRequired}, rows : SeqsUpTo(TraitRows, MaxTraitRows)]
    /\ res = <<>>
    /\ step = 0

ApplyFilterTraits ==
    /\ step = 0
    /\ res' = <<FilterTraits(arg)>>
    /\ step' = 1
    /\ UNCHANGED <<buildVars, report, arg>>

NextTraits == ApplyFilterTraits

SpecTraits == InitTraits /\ [][NextTraits]_vars

Active(row) == row["tier_current"] \in {"1", "2"}

\* C8: when the filter succeeds, its rows are exactly the input rows with
\* tier_current > 0, in input order, unchanged, under the input's columns.
C8_ActiveTraitsOnly ==
    (step = 1 /\ res[1].err = NoError) =>
        LET out == res[1].df
            kept == {i \in 1..Len(arg.rows) : Active(arg.rows[i])}
        IN /\ out.cols = arg.cols
           /\ Len(out.rows) = Cardinality(kept)
           /\ \A i \in kept :
                 out.rows[Cardinality({j \in kept : j <= i})] = arg.rows[i]

\* tiers 0, 1, 2 in this order: the rows with 1 and 2 are kept
C8_Witness ==
    /\ step = 1
    /\ Len(arg.rows) = 3
    /\ [i \in 1..3 |-> arg.rows[i]["tier_current"]] = <<"0", "1", "2">>
    /\ res[1].err = NoError
    /\ res[1].df.rows = <<arg.rows[2], arg.rows[3]>>

====
